---- MODULE Spec2Model ----
(***************************************************************************)
(* The preprocessing objects of the two notebooks                          *)
(*   src/2_snowpark_ml_feature_transformations.ipynb   (feature notebook)  *)
(*   src/unnamed/part_000                              (modeling notebook) *)
(* The notebooks declare the transformers and the pipeline, and call fit,  *)
(* transform, joblib.dump and joblib.load on them.  The bodies of those    *)
(* calls belong to the preprocessing library, which is not part of the     *)
(* source tree; they are written here from sections 3, 4 and 7 of the      *)
(* specification.  Declarations and call sites follow the notebooks.       *)
(***************************************************************************)
EXTENDS Integers, Sequences, FiniteSets, TLC

VARIABLES
    diamonds_df,            \* the table read by session.table(input_tbl)
    diamonds_train_df,      \* first part of random_split
    diamonds_test_df,       \* second part of random_split
    snowml_mms,             \* the stand-alone MinMaxScaler
    snowml_oe,              \* the stand-alone OrdinalEncoder
    snowml_ohe,             \* the stand-alone OneHotEncoder
    preprocessing_pipeline, \* the Pipeline object of the running session
    pipeline_file,          \* contents of PIPELINE_FILE on disk
    result,                 \* outcome of the latest fit / transform call
    pc,                     \* next statement of the notebook run, 0: no run
    stopped,                \* the notebook run has stopped at a raising cell
    history,                \* pipeline calls made by the notebook run
    warehouse_size,         \* WAREHOUSE_SIZE of ML_HOL_WH
    grid_search,            \* the GridSearchCV object
    gs_results_df,          \* rows (n_estimators, learning_rate, mape)
    optimal,                \* optimal_n_estimators, _learning_rate, _mape
    registry,               \* models, deployments and metrics of the registry
    import_directory,       \* the UDF process: import directory and its files
    load_model_cache,       \* the UDF process: cache of load_model
    opened,                 \* the UDF process: files opened, per filename
    returned,               \* the UDF process: outcome of the latest call
    invocations             \* the UDF process: calls made so far

tables == <<diamonds_df, diamonds_train_df, diamonds_test_df>>

notebook ==
    <<pc, stopped, history, warehouse_size, grid_search, gs_results_df, optimal,
      registry>>

udf_process == <<import_directory, load_model_cache, opened, returned, invocations>>

vars == <<tables, snowml_mms, snowml_oe, snowml_ohe, preprocessing_pipeline,
          pipeline_file, result, notebook, udf_process>>

\* The notebook run at statement k with nothing done yet.
NotebookAt(k) ==
    /\ pc = k
    /\ stopped = FALSE
    /\ history = <<>>
    /\ warehouse_size = "XSMALL"
    /\ grid_search = [fitted |-> FALSE, warehouse |-> "", scores |-> <<>>]
    /\ gs_results_df = <<>>
    /\ optimal = [set |-> FALSE, n_estimators |-> 0, learning_rate |-> 0, mape |-> 0]
    /\ registry = [models |-> {}, deployments |-> {}, metrics |-> {}]

NoNotebook == NotebookAt(0)

\* No UDF process is running.
NoUdfProcess ==
    /\ import_directory = [dir |-> "", files |-> {}]
    /\ load_model_cache = <<>>
    /\ opened = <<>>
    /\ returned = [filename |-> "", status |-> "none", value |-> 0]
    /\ invocations = 0

-----------------------------------------------------------------------------
(* Bounds of the explored inputs.                                          *)

\* Largest number of rows of a table handed to a stand-alone transformer.
MaxRows == 3

\* Largest number of rows of the table that is split for the pipeline.
PipeRows == 3

-----------------------------------------------------------------------------
(* Exact rational numbers [n, d] in lowest terms with d > 0.  Column       *)
(* values and the scaler's results are rationals.                          *)

Abs(i) == IF i < 0 THEN -i ELSE i

RECURSIVE GCD(_, _)
GCD(a, b) == IF b = 0 THEN a ELSE GCD(b, a % b)

\* n / d with the common factor g taken out.
Reduce(n, d, g) == [n |-> n \div g, d |-> d \div g]

Rat(n, d) ==
    IF d < 0 THEN Reduce(-n, -d, GCD(Abs(n), Abs(d)))
    ELSE Reduce(n, d, GCD(Abs(n), Abs(d)))

RSub(a, b) == Rat(a.n * b.d - b.n * a.d, a.d * b.d)
RDiv(a, b) == Rat(a.n * b.d, a.d * b.n)
RLe(a, b) == a.n * b.d <= b.n * a.d
RLt(a, b) == a.n * b.d < b.n * a.d
RMin(a, b) == IF RLe(a, b) THEN a ELSE b
RMax(a, b) == IF RLe(a, b) THEN b ELSE a
Zero == [n |-> 0, d |-> 1]
One == [n |-> 1, d |-> 1]
Milli(m) == Rat(m, 1000)

-----------------------------------------------------------------------------
(* Datasets: a sequence of rows, a row a function from column names to     *)
(* values.  Row order is kept by every transform.                          *)

Columns(ds) == DOMAIN ds[1]

Column(ds, c) == [i \in 1..Len(ds) |-> ds[i][c]]

Range(s) == {s[i] : i \in 1..Len(s)}

RECURSIVE IndexOf(_, _, _)
\* Position of x in sequence s at or after i, 0 when absent.
IndexOf(s, x, i) ==
    IF i > Len(s) THEN 0
    ELSE IF s[i] = x THEN i
    ELSE IndexOf(s, x, i + 1)

RECURSIVE Distinct(_, _, _)
\* The distinct values of s in first-seen order.
Distinct(s, i, acc) ==
    IF i > Len(s) THEN acc
    ELSE Distinct(s, i + 1, IF s[i] \in Range(acc) THEN acc ELSE Append(acc, s[i]))

-----------------------------------------------------------------------------
(* Error kinds of section 7 and the transformers of section 4.             *)

Ok == "ok"
NotFittedError == "NotFittedError"
UnknownCategoryError == "UnknownCategoryError"
ColumnNotFoundError == "ColumnNotFoundError"

\* A category vocabulary or a fitted state that holds nothing.
Nothing == [c \in {} |-> 0]

\* A transformer as constructed: configuration, no fitted state.
Transformer(kind, input_cols, output_cols, clip, categories) ==
    [kind |-> kind, input_cols |-> input_cols, output_cols |-> output_cols,
     clip |-> clip, categories |-> categories,
     is_fitted |-> FALSE, state |-> Nothing]

RECURSIVE SeqMin(_, _, _)
SeqMin(s, i, m) == IF i > Len(s) THEN m ELSE SeqMin(s, i + 1, RMin(m, s[i]))

RECURSIVE SeqMax(_, _, _)
SeqMax(s, i, m) == IF i > Len(s) THEN m ELSE SeqMax(s, i + 1, RMax(m, s[i]))

\* MinMaxScaler.fit: the observed minimum and maximum of one column.
MinMax(col) == [min |-> SeqMin(col, 2, col[1]), max |-> SeqMax(col, 2, col[1])]

MinMaxOf(ds, c) == MinMax(Column(ds, c))

\* Position-to-rank mapping of an ordered vocabulary: label -> 0..k-1.
RankMap(vocab) == [v \in Range(vocab) |-> IndexOf(vocab, v, 1) - 1]

\* The vocabulary of column c: the supplied list, else the distinct values
\* observed during fit in first-seen order.
Vocabulary(step, ds, c) ==
    IF c \in DOMAIN step.categories
    THEN step.categories[c]
    ELSE Distinct(Column(ds, c), 1, <<>>)

FittedStateOf(step, ds) ==
    [c \in Range(step.input_cols) |->
        CASE step.kind = "MinMaxScaler" -> MinMaxOf(ds, c)
          [] step.kind = "OrdinalEncoder" -> RankMap(Vocabulary(step, ds, c))
          [] step.kind = "OneHotEncoder" -> Vocabulary(step, ds, c)]

\* step.fit(ds): [status, step].
StepFit(step, ds) ==
    IF ~(Range(step.input_cols) \subseteq Columns(ds))
    THEN [status |-> ColumnNotFoundError, step |-> step]
    ELSE [status |-> Ok,
          step |-> [step EXCEPT !.is_fitted = TRUE,
                                !.state = FittedStateOf(step, ds)]]

\* MinMaxScaler: (v - min) / (max - min); 0 on a constant column; with clip
\* the scaled value is clamped into [0, 1].
Clamp(x) == RMax(Zero, RMin(One, x))

\* Variant: a zero range is replaced by 1, so a constant column maps v to
\* v - min.
ScaleUnitRange(v, mm, clip) ==
    IF mm.max = mm.min
    THEN IF clip THEN Clamp(RSub(v, mm.min)) ELSE RSub(v, mm.min)
    ELSE IF clip THEN Clamp(RDiv(RSub(v, mm.min), RSub(mm.max, mm.min)))
    ELSE RDiv(RSub(v, mm.min), RSub(mm.max, mm.min))

Scale(v, mm, clip) ==
    IF mm.max = mm.min THEN Zero
    ELSE IF clip THEN Clamp(RDiv(RSub(v, mm.min), RSub(mm.max, mm.min)))
    ELSE RDiv(RSub(v, mm.min), RSub(mm.max, mm.min))

\* The labels an encoder knows for column c.
KnownLabels(step, c) ==
    IF step.kind = "OrdinalEncoder" THEN DOMAIN step.state[c]
    ELSE Range(step.state[c])

\* Some row holds a label outside the fitted vocabulary of its column.
HasUnknownCategory(step, ds) ==
    /\ step.kind \in {"OrdinalEncoder", "OneHotEncoder"}
    /\ \E i \in 1..Len(ds) : \E k \in 1..Len(step.input_cols) :
          ds[i][step.input_cols[k]] \notin KnownLabels(step, step.input_cols[k])

\* The <<column, value>> pairs a fitted step writes for one row and its k-th
\* input column.
OutputsFor(step, row, c, o) ==
    CASE step.kind = "MinMaxScaler" ->
            <<  <<o, Scale(row[c], step.state[c], step.clip)>>  >>
      [] step.kind = "OrdinalEncoder" ->
            <<  <<o, step.state[c][row[c]]>>  >>
      [] step.kind = "OneHotEncoder" ->
            [j \in 1..Len(step.state[c]) |->
                <<o \o "_" \o step.state[c][j],
                  IF row[c] = step.state[c][j] THEN 1 ELSE 0>>]

OutputsOf(step, row, k) ==
    OutputsFor(step, row, step.input_cols[k], step.output_cols[k])

RECURSIVE AllOutputs(_, _, _)
AllOutputs(step, row, k) ==
    IF k > Len(step.input_cols) THEN <<>>
    ELSE OutputsOf(step, row, k) \o AllOutputs(step, row, k + 1)

RECURSIVE LastWrite(_, _, _)
\* The value of the last pair of outs[1..j] that names column c.
LastWrite(outs, c, j) ==
    IF outs[j][1] = c THEN outs[j][2] ELSE LastWrite(outs, c, j - 1)

\* Every output is computed from the input row, then written: an output
\* column replaces a column of the same name, else it is added.
Write(row, outs, written) ==
    [c \in DOMAIN row \cup written |->
        IF c \in written THEN LastWrite(outs, c, Len(outs)) ELSE row[c]]

WriteOutputs(row, outs) == Write(row, outs, {outs[j][1] : j \in 1..Len(outs)})

TransformRow(step, row) == WriteOutputs(row, AllOutputs(step, row, 1))

\* Variant: an OrdinalEncoder gives a label outside its vocabulary the
\* rank -1 instead of failing.
LenientOutputsFor(step, row, c, o) ==
    IF step.kind = "OrdinalEncoder" /\ row[c] \notin DOMAIN step.state[c]
    THEN <<  <<o, -1>>  >>
    ELSE OutputsFor(step, row, c, o)

RECURSIVE LenientOutputs(_, _, _)
LenientOutputs(step, row, k) ==
    IF k > Len(step.input_cols) THEN <<>>
    ELSE LenientOutputsFor(step, row, step.input_cols[k], step.output_cols[k])
            \o LenientOutputs(step, row, k + 1)

StepTransformLenient(step, ds) ==
    IF ~step.is_fitted
    THEN [status |-> NotFittedError, data |-> <<>>]
    ELSE IF ~(Range(step.input_cols) \subseteq Columns(ds))
    THEN [status |-> ColumnNotFoundError, data |-> <<>>]
    ELSE IF step.kind = "OneHotEncoder" /\ HasUnknownCategory(step, ds)
    THEN [status |-> UnknownCategoryError, data |-> <<>>]
    ELSE [status |-> Ok,
          data |-> [i \in 1..Len(ds) |->
                      WriteOutputs(ds[i], LenientOutputs(step, ds[i], 1))]]

\* step.transform(ds): [status, data].
StepTransform(step, ds) ==
    IF ~step.is_fitted
    THEN [status |-> NotFittedError, data |-> <<>>]
    ELSE IF ~(Range(step.input_cols) \subseteq Columns(ds))
    THEN [status |-> ColumnNotFoundError, data |-> <<>>]
    ELSE IF HasUnknownCategory(step, ds)
    THEN [status |-> UnknownCategoryError, data |-> <<>>]
    ELSE [status |-> Ok,
          data |-> [i \in 1..Len(ds) |-> TransformRow(step, ds[i])]]

-----------------------------------------------------------------------------
(* Pipeline of section 4.4: named steps run in declaration order.          *)

\* One entry of the record of step invocations made by a pipeline call.
\* via: the pipeline method making it; idx, name: the step; op: the step method.
Call(via, i, name, op, input, output) ==
    [via |-> via, idx |-> i, name |-> name, op |-> op, input |-> input,
     output |-> output]

Outcome(status, failed, steps, data, calls) ==
    [status |-> status, failed |-> failed, steps |-> steps, data |-> data,
     calls |-> calls]

RECURSIVE FitSteps(_, _, _, _)

\* Step i is fitted (steps holds it) and has transformed ds into t.
AfterTransform(steps, i, ds, calls, t) ==
    IF t.status # Ok
    THEN Outcome(t.status, steps[i].name, steps, <<>>,
                 Append(calls, Call("fit", i, steps[i].name, "transform", ds, t.data)))
    ELSE FitSteps(steps, i + 1, t.data,
                  Append(calls, Call("fit", i, steps[i].name, "transform", ds, t.data)))

\* Step i has been fit on ds with outcome f.
AfterFit(steps, i, ds, calls, f) ==
    IF f.status # Ok
    THEN Outcome(f.status, steps[i].name, steps, <<>>, calls)
    ELSE AfterTransform([steps EXCEPT ![i].est = f.step], i, ds, calls,
                        StepTransform(f.step, ds))

\* Steps i.. : fit the step on ds, transform ds with it, hand the result on.
\* A failing step ends the call; the steps fitted so far stay fitted.
FitSteps(steps, i, ds, calls) ==
    IF i > Len(steps) THEN Outcome(Ok, "", steps, ds, calls)
    ELSE AfterFit(steps, i, ds,
                  Append(calls, Call("fit", i, steps[i].name, "fit", ds, ds)),
                  StepFit(steps[i].est, ds))

RECURSIVE TransformSteps(_, _, _, _)

\* Variant: a failing step is skipped and the next step gets its input.
AfterStepSwallow(steps, i, ds, calls, t) ==
    TransformSteps(steps, i + 1, IF t.status # Ok THEN ds ELSE t.data,
                   Append(calls, Call("transform", i, steps[i].name, "transform", ds, t.data)))

\* Step i has transformed ds into t.
AfterStep(steps, i, ds, calls, t) ==
    IF t.status # Ok
    THEN Outcome(t.status, steps[i].name, steps, <<>>,
                 Append(calls, Call("transform", i, steps[i].name, "transform", ds, t.data)))
    ELSE TransformSteps(steps, i + 1, t.data,
                        Append(calls, Call("transform", i, steps[i].name, "transform", ds, t.data)))

\* Steps i.. : transform ds with the step, hand the result on.
TransformSteps(steps, i, ds, calls) ==
    IF i > Len(steps) THEN Outcome(Ok, "", steps, ds, calls)
    ELSE AfterStep(steps, i, ds, calls, StepTransform(steps[i].est, ds))

RECURSIVE FirstUnfitted(_, _)
\* Index of the first step without fitted state, 0 when every step has one.
FirstUnfitted(steps, i) ==
    IF i > Len(steps) THEN 0
    ELSE IF ~steps[i].est.is_fitted THEN i
    ELSE FirstUnfitted(steps, i + 1)

\* Pipeline.fit(ds): the transformed dataset is not returned.
PipelineFit(pipeline, ds) ==
    [FitSteps(pipeline.steps, 1, ds, <<>>) EXCEPT !.data = <<>>]

\* Pipeline.fit_transform(ds): the same pass, returning its dataset.
PipelineFitTransform(pipeline, ds) == FitSteps(pipeline.steps, 1, ds, <<>>)

\* Pipeline.transform(ds): fails before running any step when a step has no
\* fitted state, naming that step.
\* Variant: a pipeline with an unfitted step hands the dataset back untouched.
PipelineTransformUnchecked(pipeline, ds) ==
    IF FirstUnfitted(pipeline.steps, 1) # 0
    THEN Outcome(Ok, "", pipeline.steps, ds, <<>>)
    ELSE TransformSteps(pipeline.steps, 1, ds, <<>>)

NotFitted(pipeline, u) ==
    Outcome(NotFittedError, pipeline.steps[u].name, pipeline.steps, <<>>, <<>>)

PipelineTransform(pipeline, ds) ==
    IF FirstUnfitted(pipeline.steps, 1) # 0
    THEN NotFitted(pipeline, FirstUnfitted(pipeline.steps, 1))
    ELSE TransformSteps(pipeline.steps, 1, ds, <<>>)

-----------------------------------------------------------------------------
(* Persistence (joblib.dump / joblib.load): the blob lists, per step, its  *)
(* name, type, configuration and fitted state.                             *)

\* Variant: the blob keeps the configuration and drops the fitted state.
SerializeStepConfigOnly(s) ==
    <<s.name, s.est.kind,
      <<s.est.input_cols, s.est.output_cols, s.est.clip, s.est.categories>>,
      <<FALSE, Nothing>>>>

SerializeStep(s) ==
    <<s.name, s.est.kind,
      <<s.est.input_cols, s.est.output_cols, s.est.clip, s.est.categories>>,
      <<s.est.is_fitted, s.est.state>>>>

DeserializeStep(b) ==
    [name |-> b[1],
     est |-> [kind |-> b[2], input_cols |-> b[3][1], output_cols |-> b[3][2],
              clip |-> b[3][3], categories |-> b[3][4],
              is_fitted |-> b[4][1], state |-> b[4][2]]]

Serialize(pipeline) ==
    [i \in 1..Len(pipeline.steps) |-> SerializeStep(pipeline.steps[i])]

Deserialize(blob) ==
    [steps |-> [i \in 1..Len(blob) |-> DeserializeStep(blob[i])]]

-----------------------------------------------------------------------------
(* Declarations of the notebooks.                                          *)

CATEGORICAL_COLUMNS == <<"CUT", "COLOR", "CLARITY">>
\* Variant: the last encoded column is given the name of the label column.
CategoricalOutputsClash == <<"CUT_OE", "COLOR_OE", "PRICE">>

CATEGORICAL_COLUMNS_OE == <<"CUT_OE", "COLOR_OE", "CLARITY_OE">>
NUMERICAL_COLUMNS == <<"CARAT", "DEPTH", "TABLE_PCT", "X", "Y", "Z">>

CutCategories == <<"IDEAL", "PREMIUM", "VERY_GOOD", "GOOD", "FAIR">>
ClarityCategories ==
    <<"IF", "VVS1", "VVS2", "VS1", "VS2", "SI1", "SI2", "I1", "I2", "I3">>
ColorCategories == <<"D", "E", "F", "G", "H", "I", "J">>

\* The vocabulary given to the stand-alone OrdinalEncoder.
categories_oe ==
    [c \in {"CUT", "CLARITY"} |->
        IF c = "CUT" THEN CutCategories ELSE ClarityCategories]

\* The vocabulary given to the pipeline's OrdinalEncoder.
categories ==
    [c \in {"CUT", "CLARITY", "COLOR"} |->
        CASE c = "CUT" -> CutCategories
          [] c = "CLARITY" -> ClarityCategories
          [] c = "COLOR" -> ColorCategories]

\* Variant: the scaler declared to write back into CARAT.
MmsInPlace ==
    Transformer("MinMaxScaler", <<"CARAT">>, <<"CARAT">>, FALSE, Nothing)

\* snowml.MinMaxScaler(input_cols=["CARAT"], output_cols=["CARAT_NORM"])
MmsDeclared ==
    Transformer("MinMaxScaler", <<"CARAT">>, <<"CARAT_NORM">>, FALSE, Nothing)

\* Variant: the encoder declared without categories=categories.
OeWithoutCategories ==
    Transformer("OrdinalEncoder", <<"CUT", "CLARITY">>,
                <<"CUT_OE", "CLARITY_OE">>, FALSE, Nothing)

\* snowml.OrdinalEncoder(input_cols=["CUT", "CLARITY"],
\*     output_cols=["CUT_OE", "CLARITY_OE"], categories=categories)
OeDeclared ==
    Transformer("OrdinalEncoder", <<"CUT", "CLARITY">>,
                <<"CUT_OE", "CLARITY_OE">>, FALSE, categories_oe)

\* Variant: the encoder declared with categories=categories.
OheWithCategories ==
    Transformer("OneHotEncoder", <<"CUT", "COLOR", "CLARITY">>,
                <<"CUT_OHE", "COLOR_OHE", "CLARITY_OHE">>, FALSE, categories_oe)

\* snowml.OneHotEncoder(input_cols=["CUT", "COLOR", "CLARITY"],
\*     output_cols=["CUT_OHE", "COLOR_OHE", "CLARITY_OHE"])
OheDeclared ==
    Transformer("OneHotEncoder", <<"CUT", "COLOR", "CLARITY">>,
                <<"CUT_OHE", "COLOR_OHE", "CLARITY_OHE">>, FALSE, Nothing)

\* Variant: the pipeline's MinMaxScaler declared without clip.
PipelineClipOff == FALSE

\* clip=True of the pipeline's MinMaxScaler.
PipelineClip == TRUE

OEStep ==
    [name |-> "OE",
     est |-> Transformer("OrdinalEncoder", CATEGORICAL_COLUMNS,
                         CATEGORICAL_COLUMNS_OE, FALSE, categories)]

MMSStep ==
    [name |-> "MMS",
     est |-> Transformer("MinMaxScaler", NUMERICAL_COLUMNS, NUMERICAL_COLUMNS,
                         PipelineClip, Nothing)]

\* Variant: the two steps declared in the other order.
PipelineSwapped == [steps |-> <<MMSStep, OEStep>>]

\* Pipeline(steps=[("OE", ...), ("MMS", ...)])
PipelineDeclared == [steps |-> <<OEStep, MMSStep>>]

-----------------------------------------------------------------------------
(* Input tables.                                                           *)

\* A row of the diamonds table; CARAT, CUT and CLARITY vary per row.
DiamondRow(carat, cut, clarity) ==
    [c \in {"CARAT", "CUT", "COLOR", "CLARITY", "DEPTH", "TABLE_PCT", "PRICE",
            "X", "Y", "Z"} |->
        CASE c = "CARAT" -> Milli(carat)
          [] c = "CUT" -> cut
          [] c = "COLOR" -> "E"
          [] c = "CLARITY" -> clarity
          [] c = "DEPTH" -> Milli(61500)
          [] c = "TABLE_PCT" -> Milli(55000)
          [] c = "PRICE" -> Milli(326000)
          [] c = "X" -> Milli(3950)
          [] c = "Y" -> Milli(3980)
          [] c = "Z" -> Milli(2430)]

\* CARAT values in thousandths.
CaratValues == {200, 500, 1000}

\* A label that no supplied vocabulary holds.
UnknownLabel == "UNGRADED"

\* Rows of the table that is split for the pipeline: every CARAT value with
\* a known CUT, and one row whose CUT is unknown.
PipeRowSet ==
    {DiamondRow(ca, "IDEAL", "SI2") : ca \in CaratValues}
        \cup {DiamondRow(500, UnknownLabel, "SI2")}

\* Rows handed to the stand-alone scaler: every CARAT value.
ScalerRowSet == {DiamondRow(ca, "IDEAL", "SI2") : ca \in CaratValues}

\* Rows handed to the stand-alone OrdinalEncoder: three CUT labels of the
\* vocabulary and one outside it.
OrdinalRowSet ==
    {DiamondRow(500, cu, "SI2") : cu \in {"IDEAL", "FAIR", "GOOD", UnknownLabel}}

\* Rows handed to the stand-alone OneHotEncoder.
OneHotRowSet ==
    {DiamondRow(500, cu, "SI2") : cu \in {"IDEAL", "FAIR", "GOOD"}}
        \cup {DiamondRow(500, "IDEAL", "VS1")}

TablesOf(rows, n) == UNION {[1..k -> rows] : k \in 1..n}

NoResult ==
    [op |-> "none", input |-> <<>>, status |-> Ok, failed |-> "",
     data |-> <<>>, calls |-> <<>>]

ResultOf(op, input, r) ==
    [op |-> op, input |-> input, status |-> r.status, failed |-> r.failed,
     data |-> r.data, calls |-> r.calls]

NoFile == [exists |-> FALSE, blob |-> <<>>]

-----------------------------------------------------------------------------
(* The pipeline in a session: any order of dump, load, fit and transform   *)
(* on the two parts of the split table.                                    *)

\* diamonds_df is one of the tables of at most n rows, and random_split cuts
\* it into two parts, neither empty.
SplitTable(rows, n) ==
    \E t \in TablesOf(rows, n) : \E k \in 1..(Len(t) - 1) :
        /\ diamonds_df = t
        /\ diamonds_train_df = SubSeq(t, 1, k)
        /\ diamonds_test_df = SubSeq(t, k + 1, Len(t))

Init ==
    /\ SplitTable(PipeRowSet, PipeRows)
    /\ snowml_mms = MmsDeclared
    /\ snowml_oe = OeDeclared
    /\ snowml_ohe = OheDeclared
    /\ preprocessing_pipeline = PipelineDeclared
    /\ pipeline_file = NoFile
    /\ result = NoResult
    /\ NoNotebook
    /\ NoUdfProcess

Frames == {diamonds_train_df, diamonds_test_df}

\* joblib.dump(preprocessing_pipeline, PIPELINE_FILE)
DumpPipeline ==
    /\ pipeline_file' = [exists |-> TRUE, blob |-> Serialize(preprocessing_pipeline)]
    /\ UNCHANGED <<notebook, udf_process, tables, snowml_mms, snowml_oe, snowml_ohe, preprocessing_pipeline, result>>

\* preprocessing_pipeline = joblib.load(PIPELINE_FILE)
LoadPipeline ==
    /\ pipeline_file.exists
    /\ preprocessing_pipeline' = Deserialize(pipeline_file.blob)
    /\ UNCHANGED <<notebook, udf_process, tables, snowml_mms, snowml_oe, snowml_ohe, pipeline_file, result>>

\* Variant: transform fits the steps again on the dataset it is given.
TransformRefits(df) ==
    /\ preprocessing_pipeline' =
          [steps |-> PipelineFitTransform(preprocessing_pipeline, df).steps]
    /\ result' = ResultOf("transform", df,
                          PipelineFitTransform(preprocessing_pipeline, df))
    /\ UNCHANGED <<notebook, udf_process, tables, snowml_mms, snowml_oe, snowml_ohe, pipeline_file>>

\* preprocessing_pipeline.transform(df)
Transform(df) ==
    /\ result' = ResultOf("transform", df, PipelineTransform(preprocessing_pipeline, df))
    /\ UNCHANGED <<notebook, udf_process, tables, snowml_mms, snowml_oe, snowml_ohe, preprocessing_pipeline, pipeline_file>>

\* The outcome of fit(df).transform(df), fit having ended with f: fit returns
\* the pipeline, and transform runs on it when fit has not raised.
ThenTransform(f, df) ==
    IF f.status # Ok THEN f
    ELSE [PipelineTransform([steps |-> f.steps], df) EXCEPT
            !.calls = f.calls \o @]

Chained(op, df, r) ==
    /\ preprocessing_pipeline' = [steps |-> r.steps]
    /\ result' = ResultOf(op, df, r)

\* Variant: fit on df, transform of the other part of the split.
FitThenTransformOther(df) ==
    /\ Chained("fit.transform", df,
               ThenTransform(PipelineFit(preprocessing_pipeline, df),
                             IF df = diamonds_train_df THEN diamonds_test_df
                             ELSE diamonds_train_df))
    /\ UNCHANGED <<notebook, udf_process, tables, snowml_mms, snowml_oe, snowml_ohe, pipeline_file>>

\* preprocessing_pipeline.fit(df).transform(df)
FitThenTransform(df) ==
    /\ Chained("fit.transform", df,
               ThenTransform(PipelineFit(preprocessing_pipeline, df), df))
    /\ UNCHANGED <<notebook, udf_process, tables, snowml_mms, snowml_oe, snowml_ohe, pipeline_file>>

Next ==
    \/ DumpPipeline
    \/ LoadPipeline
    \/ \E df \in Frames : FitThenTransform(df)
    \/ \E df \in Frames : Transform(df)

Spec == Init /\ [][Next]_vars

-----------------------------------------------------------------------------
(* Properties of the pipeline session (Spec).                              *)

IsFitCall(c) == c.via = "fit"
IsTransformCall(c) == c.via = "transform"

\* The step invocations of one pipeline call never go back to an earlier
\* declared step, and carry the declared names.
InDeclarationOrder(cs) ==
    /\ \A j \in 1..Len(cs) :
          /\ cs[j].idx \in 1..Len(preprocessing_pipeline.steps)
          /\ cs[j].name = preprocessing_pipeline.steps[cs[j].idx].name
    /\ \A j \in 2..Len(cs) : cs[j - 1].idx <= cs[j].idx

\* Pipeline.fit: step 1 is fit on the input; every step transforms the dataset
\* it was fit on; the next step is fit on the dataset that transform produced.
FitChain(cs, input) ==
    \A j \in 1..Len(cs) :
        IF cs[j].op = "fit"
        THEN /\ cs[j].idx = (j + 1) \div 2
             /\ cs[j].input = IF j = 1 THEN input ELSE cs[j - 1].output
             /\ j > 1 => cs[j - 1].op = "transform"
        ELSE /\ j > 1
             /\ cs[j - 1].op = "fit"
             /\ cs[j - 1].idx = cs[j].idx
             /\ cs[j].input = cs[j - 1].input

\* Pipeline.transform: step j receives the output of step j - 1.
TransformChain(cs, input) ==
    \A j \in 1..Len(cs) :
        /\ cs[j].op = "transform"
        /\ cs[j].idx = j
        /\ cs[j].input = IF j = 1 THEN input ELSE cs[j - 1].output

\* In the notebook pipeline "MMS" never runs before "OE" has run.
OEBeforeMMS(cs) ==
    \A j \in 1..Len(cs) :
        cs[j].name = "MMS" => \E i \in 1..(j - 1) : cs[i].name = "OE"

\* C1: in every pipeline call the steps run strictly in declaration order;
\* during fit each step is fit on, and then transforms, the dataset produced
\* by the steps before it, during transform each step receives the output of
\* the step before it, and "OE" always runs before "MMS".
C1_StepsRunInDeclarationOrder ==
    /\ InDeclarationOrder(SelectSeq(result.calls, IsFitCall))
    /\ InDeclarationOrder(SelectSeq(result.calls, IsTransformCall))
    /\ FitChain(SelectSeq(result.calls, IsFitCall), result.input)
    /\ TransformChain(SelectSeq(result.calls, IsTransformCall), result.input)
    /\ OEBeforeMMS(SelectSeq(result.calls, IsFitCall))
    /\ OEBeforeMMS(SelectSeq(result.calls, IsTransformCall))
    /\ result.status = Ok /\ result.op = "transform" =>
          /\ Len(result.calls) = Len(preprocessing_pipeline.steps)
          /\ result.data = result.calls[Len(result.calls)].output

\* A fit followed by a transform has run both steps twice over in order.
C1_Witness ==
    /\ result.op = "fit.transform"
    /\ result.status = Ok
    /\ Len(SelectSeq(result.calls, IsFitCall)) = 4
    /\ Len(SelectSeq(result.calls, IsTransformCall)) = 2
    /\ result.calls[2].output # result.calls[2].input

\* The step taken is a call of preprocessing_pipeline.transform.
IsTransformStep ==
    /\ result' # result
    /\ result'.op = "transform"

HasUnfittedStep(pipeline) == FirstUnfitted(pipeline.steps, 1) # 0

\* C2: transform on a pipeline with a step that has neither been fit nor
\* loaded with fitted state fails with the not-fitted error naming the first
\* such step, and returns no dataset.
C2_TransformBeforeFitFails ==
    [][IsTransformStep /\ HasUnfittedStep(preprocessing_pipeline) =>
          /\ result'.status = NotFittedError
          /\ result'.failed =
                preprocessing_pipeline.steps[
                    FirstUnfitted(preprocessing_pipeline.steps, 1)].name
          /\ result'.data = <<>>
          /\ result'.calls = <<>>]_vars

\* The pipeline was dumped before any fit, the session's pipeline is the one
\* that dump holds, and transform on it has failed.
C2_Witness ==
    /\ pipeline_file.exists
    /\ preprocessing_pipeline = Deserialize(pipeline_file.blob)
    /\ \A i \in 1..Len(preprocessing_pipeline.steps) :
          ~preprocessing_pipeline.steps[i].est.is_fitted
    /\ result.op = "transform"
    /\ result.status = NotFittedError
    /\ result.failed = "OE"

InUnitInterval(x) == RLe(Zero, x) /\ RLe(x, One)

\* C4: every value the pipeline's MinMaxScaler (clip=True) writes lies in
\* [0, 1], whatever dataset it was fit on and whatever dataset it transforms.
C4_ClippedOutputsInUnitInterval ==
    result.status = Ok /\ result.op \in {"transform", "fit.transform"} =>
        \A i \in 1..Len(result.data) : \A k \in 1..Len(NUMERICAL_COLUMNS) :
            InUnitInterval(result.data[i][NUMERICAL_COLUMNS[k]])

\* The scaler was fit on a column with min < max and has transformed a
\* dataset holding a value below that min or above that max, clamped to 0 or 1.
C4_Witness ==
    /\ result.op = "transform"
    /\ result.status = Ok
    /\ preprocessing_pipeline.steps[2].est.is_fitted
    /\ RLt(preprocessing_pipeline.steps[2].est.state["CARAT"].min,
           preprocessing_pipeline.steps[2].est.state["CARAT"].max)
    /\ \E i \in 1..Len(result.input) :
          \/ /\ RLt(result.input[i]["CARAT"],
                    preprocessing_pipeline.steps[2].est.state["CARAT"].min)
             /\ result.data[i]["CARAT"] = Zero
          \/ /\ RLt(preprocessing_pipeline.steps[2].est.state["CARAT"].max,
                    result.input[i]["CARAT"])
             /\ result.data[i]["CARAT"] = One

\* C10: fit(D) followed by transform(D) gives the output, the error and the
\* fitted pipeline that one fit_transform(D) call gives.
C10_FitThenTransformIsFitTransform ==
    [][result' # result /\ result'.op = "fit.transform" =>
          /\ result'.status =
                PipelineFitTransform(preprocessing_pipeline, result'.input).status
          /\ result'.failed =
                PipelineFitTransform(preprocessing_pipeline, result'.input).failed
          /\ result'.data =
                PipelineFitTransform(preprocessing_pipeline, result'.input).data
          /\ preprocessing_pipeline'.steps =
                PipelineFitTransform(preprocessing_pipeline, result'.input).steps]_vars

\* fit(D).transform(D) has returned a transformed dataset.
C10_Witness ==
    /\ result.op = "fit.transform"
    /\ result.status = Ok
    /\ Len(result.data) = Len(result.input)
    /\ result.data # result.input

-----------------------------------------------------------------------------
(* The stand-alone transformers of the feature notebook: fit and transform *)
(* in any order on the table and on the two parts of its split.            *)

StepFrames == {diamonds_df, diamonds_train_df, diamonds_test_df}

StepResult(op, df, status, data) ==
    [op |-> op, input |-> df, status |-> status, failed |-> "", data |-> data,
     calls |-> <<>>]

InitSteps(rows) ==
    /\ SplitTable(rows, MaxRows)
    /\ snowml_mms = MmsDeclared
    /\ snowml_oe = OeDeclared
    /\ snowml_ohe = OheDeclared
    /\ preprocessing_pipeline = PipelineDeclared
    /\ pipeline_file = NoFile
    /\ result = NoResult
    /\ NoNotebook
    /\ NoUdfProcess

\* DecimalType(7, 6): six digits after the point.
DecimalScale == 6

\* x rounded to DecimalScale digits, halves away from zero.
RoundDecimal(x) ==
    IF x.n < 0
    THEN Rat(-((2 * (-x.n) * 10^DecimalScale + x.d) \div (2 * x.d)), 10^DecimalScale)
    ELSE Rat((2 * x.n * 10^DecimalScale + x.d) \div (2 * x.d), 10^DecimalScale)

\* snowml_mms.fit(df)
MmsFit(df) ==
    /\ snowml_mms' = StepFit(snowml_mms, df).step
    /\ result' = StepResult("fit", df, StepFit(snowml_mms, df).status, <<>>)
    /\ UNCHANGED <<notebook, udf_process, tables, snowml_oe, snowml_ohe, preprocessing_pipeline, pipeline_file>>

\* normalized_diamonds_df = snowml_mms.transform(df)
MmsTransform(df) ==
    /\ result' = StepResult("transform", df, StepTransform(snowml_mms, df).status,
                            StepTransform(snowml_mms, df).data)
    /\ UNCHANGED <<notebook, udf_process, tables, snowml_mms, snowml_oe, snowml_ohe,
                   preprocessing_pipeline, pipeline_file>>

\* normalized_diamonds_df.with_column("CARAT_NORM",
\*     normalized_diamonds_df.col("CARAT_NORM").cast(DecimalType(7, 6)))
MmsCast ==
    /\ result.op = "transform"
    /\ result.status = Ok
    /\ result' = [result EXCEPT
                    !.op = "cast",
                    !.data = [i \in 1..Len(result.data) |->
                                [result.data[i] EXCEPT
                                    !["CARAT_NORM"] = RoundDecimal(@)]]]
    /\ UNCHANGED <<notebook, udf_process, tables, snowml_mms, snowml_oe, snowml_ohe,
                   preprocessing_pipeline, pipeline_file>>

InitScaler == InitSteps(ScalerRowSet)

NextScaler ==
    \/ \E df \in StepFrames : MmsFit(df)
    \/ \E df \in StepFrames : MmsTransform(df)
    \/ MmsCast

SpecScaler == InitScaler /\ [][NextScaler]_vars

\* snowml_oe.fit(df)
OeFit(df) ==
    /\ snowml_oe' = StepFit(snowml_oe, df).step
    /\ result' = StepResult("fit", df, StepFit(snowml_oe, df).status, <<>>)
    /\ UNCHANGED <<notebook, udf_process, tables, snowml_mms, snowml_ohe, preprocessing_pipeline, pipeline_file>>

\* ord_encoded_diamonds_df = snowml_oe.transform(df)
OeTransform(df) ==
    /\ result' = StepResult("transform", df, StepTransform(snowml_oe, df).status,
                            StepTransform(snowml_oe, df).data)
    /\ UNCHANGED <<notebook, udf_process, tables, snowml_mms, snowml_oe, snowml_ohe,
                   preprocessing_pipeline, pipeline_file>>

InitOrdinal == InitSteps(OrdinalRowSet)

NextOrdinal ==
    \/ \E df \in StepFrames : OeFit(df)
    \/ \E df \in StepFrames : OeTransform(df)

SpecOrdinal == InitOrdinal /\ [][NextOrdinal]_vars

\* snowml_ohe.fit(df)
OheFit(df) ==
    /\ snowml_ohe' = StepFit(snowml_ohe, df).step
    /\ result' = StepResult("fit", df, StepFit(snowml_ohe, df).status, <<>>)
    /\ UNCHANGED <<notebook, udf_process, tables, snowml_mms, snowml_oe, preprocessing_pipeline, pipeline_file>>

\* transformed_diamonds_df = snowml_ohe.transform(df)
OheTransform(df) ==
    /\ result' = StepResult("transform", df, StepTransform(snowml_ohe, df).status,
                            StepTransform(snowml_ohe, df).data)
    /\ UNCHANGED <<notebook, udf_process, tables, snowml_mms, snowml_oe, snowml_ohe,
                   preprocessing_pipeline, pipeline_file>>

InitOneHot == InitSteps(OneHotRowSet)

NextOneHot ==
    \/ \E df \in StepFrames : OheFit(df)
    \/ \E df \in StepFrames : OheTransform(df)

SpecOneHot == InitOneHot /\ [][NextOneHot]_vars

-----------------------------------------------------------------------------
(* Properties of the stand-alone transformers and of the encoder inside    *)
(* the pipeline.                                                           *)

\* The step taken is a transform call of the stand-alone transformer.
IsStepTransform ==
    /\ result' # result
    /\ result'.op = "transform"

\* The step taken is a fit call of the stand-alone transformer.
IsStepFit ==
    /\ result' # result
    /\ result'.op = "fit"

RMul(a, b) == Rat(a.n * b.n, a.d * b.d)

\* mm holds the least and the greatest value of col.
IsMinMaxOf(mm, col) ==
    /\ \A i \in 1..Len(col) : RLe(mm.min, col[i]) /\ RLe(col[i], mm.max)
    /\ \E i \in 1..Len(col) : col[i] = mm.min
    /\ \E i \in 1..Len(col) : col[i] = mm.max

ExampleCarat == <<Milli(200), Milli(500), Milli(1000)>>
ExampleCaratNorm == <<Zero, Milli(375), One>>

\* out is the scaler's output for input row in, under the fitted mm.
ScaledRow(in, out, mm) ==
    /\ "CARAT_NORM" \in DOMAIN out
    /\ RMul(out["CARAT_NORM"], RSub(mm.max, mm.min)) = RSub(in["CARAT"], mm.min)
    /\ in["CARAT"] = mm.min => out["CARAT_NORM"] = Zero
    /\ in["CARAT"] = mm.max => out["CARAT_NORM"] = One
    /\ \A c \in DOMAIN in : out[c] = in[c]

\* C5: a MinMaxScaler fit on D (min < max) and applied to D writes
\* (v - min) / (max - min) for each CARAT value v into CARAT_NORM, so min maps
\* to 0 and max to 1, and leaves the other columns alone; CARAT =
\* [0.2, 0.5, 1.0] gives CARAT_NORM = [0.0, 0.375, 1.0].
C5_MinMaxScalerFormula ==
    [][/\ IsStepTransform
       /\ snowml_mms.is_fitted
       /\ IsMinMaxOf(snowml_mms.state["CARAT"], Column(result'.input, "CARAT"))
       /\ snowml_mms.state["CARAT"].min # snowml_mms.state["CARAT"].max
       =>
       /\ result'.status = Ok
       /\ Len(result'.data) = Len(result'.input)
       /\ \A i \in 1..Len(result'.input) :
             ScaledRow(result'.input[i], result'.data[i], snowml_mms.state["CARAT"])
       /\ Column(result'.input, "CARAT") = ExampleCarat =>
             Column(result'.data, "CARAT_NORM") = ExampleCaratNorm]_vars

\* The scaler, fit on CARAT = [0.2, 0.5, 1.0], has transformed that table.
C5_Witness ==
    /\ result.op = "transform"
    /\ result.status = Ok
    /\ Column(result.input, "CARAT") = ExampleCarat
    /\ snowml_mms.is_fitted
    /\ IsMinMaxOf(snowml_mms.state["CARAT"], ExampleCarat)
    /\ Column(result.data, "CARAT_NORM") = ExampleCaratNorm

IsRankIn(vocab, label, rank) ==
    /\ rank \in 0..(Len(vocab) - 1)
    /\ vocab[rank + 1] = label

ExampleCut == <<"IDEAL", "FAIR", "GOOD">>
ExampleCutRanks == <<0, 4, 3>>

\* C6: an OrdinalEncoder given its vocabularies maps every value to its
\* zero-based position in the vocabulary of its column, whatever the order of
\* the values in the data; CUT = ["IDEAL", "FAIR", "GOOD"] gives [0, 4, 3].
C6_OrdinalRanksFollowVocabulary ==
    result.op = "transform" /\ result.status = Ok =>
        /\ Len(result.data) = Len(result.input)
        /\ \A i \in 1..Len(result.input) :
              /\ {"CUT_OE", "CLARITY_OE"} \subseteq DOMAIN result.data[i]
              /\ IsRankIn(CutCategories, result.input[i]["CUT"],
                          result.data[i]["CUT_OE"])
              /\ IsRankIn(ClarityCategories, result.input[i]["CLARITY"],
                          result.data[i]["CLARITY_OE"])
        /\ Column(result.input, "CUT") = ExampleCut =>
              Column(result.data, "CUT_OE") = ExampleCutRanks

\* The encoder has transformed CUT = ["IDEAL", "FAIR", "GOOD"].
C6_Witness ==
    /\ result.op = "transform"
    /\ result.status = Ok
    /\ Column(result.input, "CUT") = ExampleCut
    /\ Column(result.data, "CUT_OE") = ExampleCutRanks

\* The indicator columns of the k-th input column for the labels given.
IndicatorColumns(k, labels) ==
    {OheDeclared.output_cols[k] \o "_" \o v : v \in labels}

\* The vocabulary fitted for column c holds each value of col exactly once.
IsVocabularyOf(vocab, col) ==
    /\ Range(vocab) = Range(col)
    /\ Len(vocab) = Cardinality(Range(col))

\* Row out holds, for the k-th input column, one indicator per fitted label,
\* all new columns, exactly one of them 1: the one of the row's own label.
OneHotRow(in, out, k, vocab) ==
    /\ Cardinality(IndicatorColumns(k, Range(vocab))) = Len(vocab)
    /\ IndicatorColumns(k, Range(vocab)) \subseteq DOMAIN out
    /\ IndicatorColumns(k, Range(vocab)) \cap DOMAIN in = {}
    /\ \A c \in IndicatorColumns(k, Range(vocab)) : out[c] \in {0, 1}
    /\ Cardinality({c \in IndicatorColumns(k, Range(vocab)) : out[c] = 1}) = 1
    /\ out[OheDeclared.output_cols[k] \o "_" \o in[OheDeclared.input_cols[k]]] = 1

\* C7: a OneHotEncoder fit on a column with k distinct categories holds those
\* k categories, and its transform writes exactly k indicator columns for
\* that input column; in every row exactly one of them is 1, the rest 0.
C7_OneHotIndicators ==
    [][/\ IsStepFit /\ result'.status = Ok =>
             \A k \in 1..Len(OheDeclared.input_cols) :
                 IsVocabularyOf(snowml_ohe'.state[OheDeclared.input_cols[k]],
                                Column(result'.input, OheDeclared.input_cols[k]))
       /\ IsStepTransform /\ result'.status = Ok =>
             /\ Len(result'.data) = Len(result'.input)
             /\ \A i \in 1..Len(result'.input) :
                   /\ \A k \in 1..Len(OheDeclared.input_cols) :
                         OneHotRow(result'.input[i], result'.data[i], k,
                                   snowml_ohe.state[OheDeclared.input_cols[k]])
                   /\ Cardinality(DOMAIN result'.data[i] \ DOMAIN result'.input[i])
                         = Len(snowml_ohe.state["CUT"])
                             + Len(snowml_ohe.state["COLOR"])
                             + Len(snowml_ohe.state["CLARITY"])]_vars

\* The encoder, fit on three CUT labels, has written three CUT indicators.
C7_Witness ==
    /\ result.op = "transform"
    /\ result.status = Ok
    /\ snowml_ohe.is_fitted
    /\ Len(snowml_ohe.state["CUT"]) = 3
    /\ result.input[1]["CUT"] = "FAIR"
    /\ {"CUT_OHE_IDEAL", "CUT_OHE_FAIR", "CUT_OHE_GOOD"} \subseteq DOMAIN result.data[1]
    /\ result.data[1]["CUT_OHE_FAIR"] = 1
    /\ result.data[1]["CUT_OHE_IDEAL"] = 0
    /\ result.data[1]["CUT_OHE_GOOD"] = 0

\* Some row of df holds a label outside the vocabulary given for its column.
InputHasUnknown(df) ==
    \E i \in 1..Len(df) : \E k \in 1..Len(CATEGORICAL_COLUMNS) :
        df[i][CATEGORICAL_COLUMNS[k]]
            \notin Range(categories[CATEGORICAL_COLUMNS[k]])

\* C8: when the OrdinalEncoder of the pipeline transforms a dataset holding a
\* value outside the vocabulary of its column, the call ends in the
\* unknown-category error of that step and no row gets a rank.
C8_UnknownCategoryFails ==
    [][/\ result' # result
       /\ InputHasUnknown(result'.input)
       /\ \/ result'.op = "fit.transform"
          \/ result'.op = "transform" /\ ~HasUnfittedStep(preprocessing_pipeline)
       =>
       /\ result'.status = UnknownCategoryError
       /\ result'.failed = "OE"
       /\ result'.data = <<>>
       /\ \A j \in 1..Len(result'.calls) :
             result'.calls[j].op = "transform" => result'.calls[j].output = <<>>]_vars

\* The fitted pipeline has refused a dataset holding an unknown CUT.
C8_Witness ==
    /\ result.op = "transform"
    /\ result.status = UnknownCategoryError
    /\ result.failed = "OE"
    /\ \E i \in 1..Len(result.input) : result.input[i]["CUT"] = UnknownLabel
    /\ ~HasUnfittedStep(preprocessing_pipeline)

-----------------------------------------------------------------------------
(* The pipeline session on tables that make a step fail: a label outside   *)
(* the vocabulary (step "OE") or a table without column Z (step "MMS").    *)

WithoutColumn(row, c) == [d \in DOMAIN row \ {c} |-> row[d]]

\* Rows of a table that lacks column Z, with a known and an unknown CUT.
NarrowRowSet ==
    {WithoutColumn(DiamondRow(500, cu, "SI2"), "Z") : cu \in {"IDEAL", UnknownLabel}}

\* diamonds_df is table t, cut by random_split into two non-empty parts.
SplitOf(t) ==
    \E k \in 1..(Len(t) - 1) :
        /\ diamonds_df = t
        /\ diamonds_train_df = SubSeq(t, 1, k)
        /\ diamonds_test_df = SubSeq(t, k + 1, Len(t))

InitFailures ==
    /\ \E t \in TablesOf(PipeRowSet, PipeRows) \cup TablesOf(NarrowRowSet, PipeRows) :
          SplitOf(t)
    /\ snowml_mms = MmsDeclared
    /\ snowml_oe = OeDeclared
    /\ snowml_ohe = OheDeclared
    /\ preprocessing_pipeline = PipelineDeclared
    /\ pipeline_file = NoFile
    /\ result = NoResult
    /\ NoNotebook
    /\ NoUdfProcess

SpecFailures == InitFailures /\ [][Next]_vars

\* The status of step invocation c, made again: a fit on the step as it was
\* before the pipeline call, a transform on the step as the call left it.
CallStatus(before, after, c) ==
    IF c.op = "fit" THEN StepFit(before[c.idx].est, c.input).status
    ELSE StepTransform(after[c.idx].est, c.input).status

\* The pipeline call that ended in r ran steps until one failed: the last
\* invocation is the failing one, r carries its error kind and step name,
\* every invocation before it succeeded, and later steps are untouched.
StoppedAtFirstFailure(r, before, after) ==
    /\ r.failed = r.calls[Len(r.calls)].name
    /\ r.failed = after[r.calls[Len(r.calls)].idx].name
    /\ r.status = CallStatus(before, after, r.calls[Len(r.calls)])
    /\ \A j \in 1..(Len(r.calls) - 1) :
          /\ CallStatus(before, after, r.calls[j]) = Ok
          /\ r.calls[j].idx <= r.calls[Len(r.calls)].idx
    /\ \A i \in 1..Len(after) :
          i > r.calls[Len(r.calls)].idx => after[i] = before[i]

\* C11: a pipeline call in which a step fails ends in that step's error
\* kind with that step's name and no dataset; the step is the first one to
\* fail, no later step runs, and a call that ends well has had no failing
\* step (no error is swallowed).
C11_FirstStepErrorPropagates ==
    [][result' # result =>
          IF result'.status = Ok
          THEN \A j \in 1..Len(result'.calls) :
                  CallStatus(preprocessing_pipeline.steps,
                             preprocessing_pipeline'.steps, result'.calls[j]) = Ok
          ELSE /\ result'.failed
                     \in {preprocessing_pipeline'.steps[i].name :
                            i \in 1..Len(preprocessing_pipeline'.steps)}
               /\ result'.data = <<>>
               /\ result'.calls # <<>> =>
                     StoppedAtFirstFailure(result', preprocessing_pipeline.steps,
                                           preprocessing_pipeline'.steps)
               /\ result'.calls = <<>> => result'.status = NotFittedError]_vars

\* Step "OE" has run and step "MMS" has failed on a table without column Z.
C11_Witness ==
    /\ result.op = "fit.transform"
    /\ result.status = ColumnNotFoundError
    /\ result.failed = "MMS"
    /\ Len(result.calls) = 3
    /\ result.calls[3].op = "fit"
    /\ preprocessing_pipeline.steps[1].est.is_fitted
    /\ ~preprocessing_pipeline.steps[2].est.is_fitted

-----------------------------------------------------------------------------
(* Fitted state of the pipeline's steps across calls.                      *)

\* Step i is fit in pipeline call r, on the dataset that call handed to it.
FitIn(r, i, before, after) ==
    \E j \in 1..Len(r.calls) :
        /\ r.calls[j].idx = i
        /\ r.calls[j].op = "fit"
        /\ after.is_fitted
        /\ after.state = FittedStateOf(before, r.calls[j].input)

\* C12: the fitted state of a step changes only when that step itself is
\* fit: no pipeline transform changes any step, a fit that stops at another
\* step leaves the step alone, and a transform reads the state the last fit
\* left (the test split is transformed with the state fit on the training
\* split).
C12_FittedStateImmutable ==
    [][/\ \A i \in 1..Len(preprocessing_pipeline.steps) :
             preprocessing_pipeline'.steps[i] # preprocessing_pipeline.steps[i] =>
                \/ /\ preprocessing_pipeline' = Deserialize(pipeline_file.blob)
                   /\ result' = result
                \/ /\ result'.op = "fit.transform"
                   /\ FitIn(result', i, preprocessing_pipeline.steps[i].est,
                            preprocessing_pipeline'.steps[i].est)
       /\ IsTransformStep =>
             /\ preprocessing_pipeline' = preprocessing_pipeline
             /\ PipelineTransform(preprocessing_pipeline, result'.input).steps
                   = preprocessing_pipeline.steps
             /\ result'.data
                   = PipelineTransform(preprocessing_pipeline', result'.input).data]_vars

\* The pipeline fit on the training split has transformed the test split,
\* whose CARAT range differs, and still holds the training split's range.
C12_Witness ==
    /\ result.op = "transform"
    /\ result.status = Ok
    /\ result.input = diamonds_test_df
    /\ preprocessing_pipeline.steps[2].est.is_fitted
    /\ preprocessing_pipeline.steps[2].est.state["CARAT"]
          = MinMaxOf(diamonds_train_df, "CARAT")
    /\ MinMaxOf(diamonds_train_df, "CARAT") # MinMaxOf(diamonds_test_df, "CARAT")

-----------------------------------------------------------------------------
(* Columns written by the steps of the pipeline.                           *)

\* Step est has turned dataset in into out: it has added or overwritten its
\* output columns and nothing else, and an output column that already
\* existed in the input is one of the step's own input columns.
StepWrites(est, in, out) ==
    /\ Len(out) = Len(in)
    /\ \A i \in 1..Len(in) :
          /\ DOMAIN out[i] = DOMAIN in[i] \cup Range(est.output_cols)
          /\ \A c \in DOMAIN in[i] \ Range(est.output_cols) : out[i][c] = in[i][c]
    /\ \A k \in 1..Len(est.output_cols) :
          \/ est.output_cols[k] \notin Columns(in)
          \/ est.output_cols[k] \in Range(est.input_cols)

\* C13: every step output column is new to the step's input dataset or one
\* of the step's own input columns, and no other column changes; in the
\* notebook pipeline CUT_OE, COLOR_OE and CLARITY_OE are new and the scaler
\* overwrites exactly CARAT, DEPTH, TABLE_PCT, X, Y and Z.
C13_OutputColumnsDoNotCollide ==
    \A j \in 1..Len(result.calls) :
        result.calls[j].op = "transform" /\ result.calls[j].output # <<>> =>
            /\ StepWrites(preprocessing_pipeline.steps[result.calls[j].idx].est,
                          result.calls[j].input, result.calls[j].output)
            /\ result.calls[j].name = "OE" =>
                  /\ preprocessing_pipeline.steps[result.calls[j].idx].est.output_cols
                        = <<"CUT_OE", "COLOR_OE", "CLARITY_OE">>
                  /\ {"CUT_OE", "COLOR_OE", "CLARITY_OE"}
                        \cap Columns(result.calls[j].input) = {}
            /\ result.calls[j].name = "MMS" =>
                  /\ Range(preprocessing_pipeline.steps[result.calls[j].idx].est.output_cols)
                        = {"CARAT", "DEPTH", "TABLE_PCT", "X", "Y", "Z"}
                  /\ preprocessing_pipeline.steps[result.calls[j].idx].est.output_cols
                        = preprocessing_pipeline.steps[result.calls[j].idx].est.input_cols

\* Both steps have written: the encoder three new columns, the scaler a new
\* value into CARAT.
C13_Witness ==
    /\ result.op = "transform"
    /\ result.status = Ok
    /\ Len(result.calls) = 2
    /\ "CUT_OE" \notin Columns(result.input)
    /\ {"CUT_OE", "COLOR_OE", "CLARITY_OE"} \subseteq Columns(result.data)
    /\ \E i \in 1..Len(result.data) :
          result.data[i]["CARAT"] # result.input[i]["CARAT"]

-----------------------------------------------------------------------------
(* A run of the two notebooks, feature notebook first: the statements run  *)
(* top to bottom and the run of a notebook stops at the first one that     *)
(* raises.                                                                 *)

\* Largest number of rows of the table of a notebook run.
RunRows == 2

\* Rows of the table of a notebook run.
RunRowSet ==
    {DiamondRow(200, "IDEAL", "SI2"), DiamondRow(1000, "IDEAL", "SI2"),
     DiamondRow(500, UnknownLabel, "SI2")}

\* Variant: the pipeline is fit before it is dumped.
FeatureFitBeforeDump == <<"fit_transform", "dump">>

\* joblib.dump(preprocessing_pipeline, PIPELINE_FILE), then
\* preprocessing_pipeline.fit(diamonds_df).transform(diamonds_df)
FeatureStatements == <<"dump", "fit_transform">>

ModelingStatements ==
    <<"load", "fit_transform_train", "transform_test", "warehouse_large",
      "grid_search_fit", "warehouse_xsmall", "gs_results", "optimal",
      "log_model", "set_metric", "deploy", "model_ref_deploy",
      "delete_deployment", "delete_model">>

Statements == FeatureStatements \o ModelingStatements

\* Statements that call the warehouse, the training service or the registry.
MayRaise ==
    {"warehouse_large", "grid_search_fit", "warehouse_xsmall", "log_model",
     "set_metric", "deploy", "model_ref_deploy", "delete_deployment",
     "delete_model"}

Current == IF pc \in 1..Len(Statements) THEN Statements[pc] ELSE "end"

Running == ~stopped /\ pc \in 1..Len(Statements)

\* The run is over: every statement has run, or one has raised.
RunOver == stopped \/ pc > Len(Statements)

InModeling == pc > Len(FeatureStatements)

\* The statement has returned (ok) or raised.
Advance(ok) ==
    /\ pc' = IF ok THEN pc + 1 ELSE pc
    /\ stopped' = ~ok

pipeline_state ==
    <<tables, snowml_mms, snowml_oe, snowml_ohe, preprocessing_pipeline,
      pipeline_file, result>>

training == <<warehouse_size, grid_search, gs_results_df, optimal, registry>>

Event(op, on, fitted) ==
    [modeling |-> InModeling, op |-> op, on |-> on, fitted |-> fitted]

IsFittedAnywhere(pipeline) ==
    \E i \in 1..Len(pipeline.steps) : pipeline.steps[i].est.is_fitted

InitNotebooks ==
    /\ SplitTable(RunRowSet, RunRows)
    /\ snowml_mms = MmsDeclared
    /\ snowml_oe = OeDeclared
    /\ snowml_ohe = OheDeclared
    /\ preprocessing_pipeline = PipelineDeclared
    /\ pipeline_file = NoFile
    /\ result = NoResult
    /\ NotebookAt(1)
    /\ NoUdfProcess

\* joblib.dump(preprocessing_pipeline, PIPELINE_FILE)
StmtDump ==
    /\ Running /\ Current = "dump"
    /\ pipeline_file' = [exists |-> TRUE, blob |-> Serialize(preprocessing_pipeline)]
    /\ history' = Append(history,
                         Event("dump", "", IsFittedAnywhere(preprocessing_pipeline)))
    /\ Advance(TRUE)
    /\ UNCHANGED <<tables, snowml_mms, snowml_oe, snowml_ohe,
                   preprocessing_pipeline, result, training, udf_process>>

\* The events of fit(df).transform(df) with outcome f of the fit.
FitTransformEvents(f, on) ==
    IF f.status # Ok THEN <<Event("fit", on, FALSE)>>
    ELSE <<Event("fit", on, TRUE), Event("transform", on, TRUE)>>

\* preprocessing_pipeline.fit(df).transform(df), ending with r.
RunFitTransform(df, on, f, r) ==
    /\ preprocessing_pipeline' = [steps |-> r.steps]
    /\ result' = ResultOf("fit.transform", df, r)
    /\ history' = history \o FitTransformEvents(f, on)
    /\ Advance(r.status = Ok)
    /\ UNCHANGED <<tables, snowml_mms, snowml_oe, snowml_ohe, pipeline_file,
                   training, udf_process>>

\* transformed_diamonds_df = preprocessing_pipeline.fit(diamonds_df).transform(diamonds_df)
StmtFitTransform ==
    /\ Running /\ Current = "fit_transform"
    /\ RunFitTransform(diamonds_df, "diamonds_df",
                       PipelineFit(preprocessing_pipeline, diamonds_df),
                       ThenTransform(PipelineFit(preprocessing_pipeline, diamonds_df),
                                     diamonds_df))

\* The feature notebook has stopped; the modeling notebook is run.
StartModeling ==
    /\ stopped /\ ~InModeling
    /\ pc' = Len(FeatureStatements) + 1
    /\ stopped' = FALSE
    /\ UNCHANGED <<pipeline_state, history, training, udf_process>>

\* preprocessing_pipeline = joblib.load(PIPELINE_FILE)
StmtLoad ==
    /\ Running /\ Current = "load"
    /\ preprocessing_pipeline' =
          IF pipeline_file.exists THEN Deserialize(pipeline_file.blob)
          ELSE preprocessing_pipeline
    /\ history' = IF pipeline_file.exists
                  THEN Append(history,
                              Event("load", "",
                                    IsFittedAnywhere(Deserialize(pipeline_file.blob))))
                  ELSE history
    /\ Advance(pipeline_file.exists)
    /\ UNCHANGED <<tables, snowml_mms, snowml_oe, snowml_ohe, pipeline_file,
                   result, training, udf_process>>

\* train_df = preprocessing_pipeline.fit(diamonds_train_df).transform(diamonds_train_df)
StmtFitTransformTrain ==
    /\ Running /\ Current = "fit_transform_train"
    /\ RunFitTransform(diamonds_train_df, "diamonds_train_df",
                       PipelineFit(preprocessing_pipeline, diamonds_train_df),
                       ThenTransform(PipelineFit(preprocessing_pipeline, diamonds_train_df),
                                     diamonds_train_df))

\* test_df = preprocessing_pipeline.transform(diamonds_test_df)
StmtTransformTest ==
    /\ Running /\ Current = "transform_test"
    /\ result' = ResultOf("transform", diamonds_test_df,
                          PipelineTransform(preprocessing_pipeline, diamonds_test_df))
    /\ history' = Append(history, Event("transform", "diamonds_test_df", TRUE))
    /\ Advance(PipelineTransform(preprocessing_pipeline, diamonds_test_df).status = Ok)
    /\ UNCHANGED <<tables, snowml_mms, snowml_oe, snowml_ohe,
                   preprocessing_pipeline, pipeline_file, training, udf_process>>

-----------------------------------------------------------------------------
(* Grid search, registry and clean-up statements of the modeling notebook. *)

\* param_grid of GridSearchCV; learning rates in thousandths.
GridEstimators == <<100, 200, 300, 400, 500>>
GridLearningRates == <<100, 200, 300, 400, 500>>

GridSize == Len(GridEstimators) * Len(GridLearningRates)

\* cv_results_["params"][i]: every combination once, n_estimators varying
\* fastest.
GridParams(i) ==
    [n_estimators |-> GridEstimators[((i - 1) % Len(GridEstimators)) + 1],
     learning_rate |-> GridLearningRates[((i - 1) \div Len(GridEstimators)) + 1]]

\* mean_test_score (negated mean absolute percentage error, in thousandths)
\* per grid point: one or two grid points share the best score.
ScoreTables ==
    {[i \in 1..GridSize |-> IF i \in {a, b} THEN -50 ELSE -80] :
        a \in 1..GridSize, b \in 1..GridSize}

\* best_index_: the first grid point with the greatest mean_test_score.
BestIndex(scores) ==
    CHOOSE i \in 1..Len(scores) :
        /\ \A j \in 1..Len(scores) : scores[j] <= scores[i]
        /\ \A j \in 1..(i - 1) : scores[j] < scores[i]

\* session.sql("ALTER WAREHOUSE ML_HOL_WH SET WAREHOUSE_SIZE=...").collect()
StmtWarehouse(stmt, size) ==
    /\ Running /\ Current = stmt
    /\ warehouse_size' = size
    /\ Advance(TRUE)
    /\ UNCHANGED <<pipeline_state, history, grid_search, gs_results_df, optimal,
                   registry, udf_process>>

\* grid_search = GridSearchCV(...); grid_search.fit(train_df)
StmtGridSearchFit ==
    /\ Running /\ Current = "grid_search_fit"
    /\ \E scores \in ScoreTables :
          grid_search' = [fitted |-> TRUE, warehouse |-> warehouse_size,
                          scores |-> scores]
    /\ Advance(TRUE)
    /\ UNCHANGED <<pipeline_state, history, warehouse_size, gs_results_df, optimal,
                   registry, udf_process>>

\* A call to the warehouse, the training service or the registry raises.
Raise ==
    /\ Running /\ Current \in MayRaise
    /\ Advance(FALSE)
    /\ UNCHANGED <<pipeline_state, history, training, udf_process>>

\* gs_results_df: one row per entry of cv_results_["params"], mape being
\* mean_test_score * -1.
StmtGsResults ==
    /\ Running /\ Current = "gs_results"
    /\ gs_results_df' =
          [i \in 1..Len(grid_search.scores) |->
              [n_estimators |-> GridParams(i).n_estimators,
               learning_rate |-> GridParams(i).learning_rate,
               mape |-> grid_search.scores[i] * (-1)]]
    /\ Advance(TRUE)
    /\ UNCHANGED <<pipeline_state, history, warehouse_size, grid_search, optimal,
                   registry, udf_process>>

\* The rows of df selected by the two comparisons.
MatchingRows(df, n, lr) ==
    {i \in 1..Len(df) : df[i].n_estimators = n /\ df[i].learning_rate = lr}

FirstOf(S) == CHOOSE i \in S : \A j \in S : i <= j

\* Variant: the rows are selected by n_estimators alone.
OptimalMapeByEstimators(df, n, lr) ==
    df[FirstOf({i \in 1..Len(df) : df[i].n_estimators = n})].mape

\* gs_results_df.loc[(n_estimators == n) & (learning_rate == lr), 'mape'].values[0]
OptimalMape(df, n, lr) == df[FirstOf(MatchingRows(df, n, lr))].mape

\* optimal_n_estimators, optimal_learning_rate: the parameters of
\* best_estimator_; optimal_mape: the lookup, which raises on no match.
StmtOptimal ==
    /\ Running /\ Current = "optimal"
    /\ optimal' =
          IF MatchingRows(gs_results_df,
                          GridParams(BestIndex(grid_search.scores)).n_estimators,
                          GridParams(BestIndex(grid_search.scores)).learning_rate) = {}
          THEN optimal
          ELSE [set |-> TRUE,
                n_estimators |-> GridParams(BestIndex(grid_search.scores)).n_estimators,
                learning_rate |-> GridParams(BestIndex(grid_search.scores)).learning_rate,
                mape |-> OptimalMape(gs_results_df,
                            GridParams(BestIndex(grid_search.scores)).n_estimators,
                            GridParams(BestIndex(grid_search.scores)).learning_rate)]
    /\ Advance(MatchingRows(gs_results_df,
                            GridParams(BestIndex(grid_search.scores)).n_estimators,
                            GridParams(BestIndex(grid_search.scores)).learning_rate) # {})
    /\ UNCHANGED <<pipeline_state, history, warehouse_size, grid_search,
                   gs_results_df, registry, udf_process>>

model_name == "diamonds_model"
model_version == 1

\* model_name + f"{model_version}" + "_UDF"
model_deployment_name == model_name \o ToString(model_version) \o "_UDF"

Deployment(name) == <<model_name, model_version, name>>

\* The deployments the registry holds for the model version.
DeploymentsOfModel ==
    {d \in registry.deployments : d[1] = model_name /\ d[2] = model_version}

\* A registry statement: it leaves the registry as r.
StmtRegistry(stmt, r) ==
    /\ Running /\ Current = stmt
    /\ registry' = r
    /\ Advance(TRUE)
    /\ UNCHANGED <<pipeline_state, history, warehouse_size, grid_search,
                   gs_results_df, optimal, udf_process>>

\* registry.log_model(model_name=model_name, model_version=model_version, ...)
StmtLogModel ==
    StmtRegistry("log_model",
                 [registry EXCEPT !.models = @ \cup {<<model_name, model_version>>}])

\* registry.set_metric(..., metric_name="mean_abs_pct_err", metric_value=optimal_mape)
StmtSetMetric ==
    StmtRegistry("set_metric",
                 [registry EXCEPT !.metrics =
                     @ \cup {<<model_name, model_version, "mean_abs_pct_err",
                               optimal.mape>>}])

\* registry.deploy(..., deployment_name=model_deployment_name, ...)
StmtDeploy ==
    StmtRegistry("deploy",
                 [registry EXCEPT !.deployments =
                     @ \cup {Deployment(model_deployment_name)}])

\* model_ref.deploy(deployment_name="Diamonds_predict", ...)
StmtModelRefDeploy ==
    StmtRegistry("model_ref_deploy",
                 [registry EXCEPT !.deployments =
                     @ \cup {Deployment("Diamonds_predict")}])

\* registry.delete_deployment(..., deployment_name=model_deployment_name)
StmtDeleteDeployment ==
    StmtRegistry("delete_deployment",
                 [registry EXCEPT !.deployments =
                     @ \ {Deployment(model_deployment_name)}])

\* registry.delete_model(model_name=model_name, model_version=model_version, ...)
StmtDeleteModel ==
    StmtRegistry("delete_model",
                 [registry EXCEPT !.models = @ \ {<<model_name, model_version>>}])

NextNotebooks ==
    \/ StmtDump
    \/ StmtFitTransform
    \/ StartModeling
    \/ StmtLoad
    \/ StmtFitTransformTrain
    \/ StmtTransformTest
    \/ StmtWarehouse("warehouse_large", "LARGE")
    \/ StmtGridSearchFit
    \/ StmtWarehouse("warehouse_xsmall", "XSMALL")
    \/ Raise
    \/ StmtGsResults
    \/ StmtOptimal
    \/ StmtLogModel
    \/ StmtSetMetric
    \/ StmtDeploy
    \/ StmtModelRefDeploy
    \/ StmtDeleteDeployment
    \/ StmtDeleteModel

SpecNotebooks == InitNotebooks /\ [][NextNotebooks]_vars

-----------------------------------------------------------------------------
(* Properties of the notebook run (SpecNotebooks).                         *)

IsModelingEvent(e) == e.modeling

\* The statement named has run and returned.
Passed(stmt) ==
    \E k \in 1..Len(Statements) : Statements[k] = stmt /\ pc > k

\* The pipeline calls of the modeling notebook so far: load, one fit on the
\* training split, its transform, then the transform of the test split.
ModelingCallsInOrder(mh) ==
    \A j \in 1..Len(mh) :
        /\ mh[j].op # "dump"
        /\ mh[j].op = "load" => j = 1 /\ ~mh[j].fitted
        /\ mh[j].op = "fit" => j = 2 /\ mh[j].on = "diamonds_train_df"
        /\ mh[j].op = "transform" =>
              /\ j \in {3, 4}
              /\ mh[2].op = "fit" /\ mh[2].fitted
        /\ mh[j].on = "diamonds_test_df" =>
              /\ j = 4
              /\ mh[3].op = "transform" /\ mh[3].on = "diamonds_train_df"

\* The file holds the un-fit pipeline and the calls so far are in order.
DumpedUnfitAndCallsInOrder ==
    /\ pipeline_file.exists =>
          /\ ~IsFittedAnywhere(Deserialize(pipeline_file.blob))
          /\ Deserialize(pipeline_file.blob) = PipelineDeclared
    /\ \A j \in 1..Len(history) : history[j].op = "dump" => ~history[j].fitted
    /\ ModelingCallsInOrder(SelectSeq(history, IsModelingEvent))

\* C14: the pipeline in PIPELINE_FILE is the un-fit pipeline (dumped before
\* any fit); the modeling notebook fits the loaded pipeline once, on the
\* training split, before its first transform, and transforms the test split
\* with no fit in between, so the fitted state is that of the training split.
C14_DumpedUnfitAndFitOnTrainOnly ==
    [][/\ DumpedUnfitAndCallsInOrder'
       /\ Current = "transform_test" /\ pc' > pc =>
             /\ Len(SelectSeq(history', IsModelingEvent)) = 4
             /\ preprocessing_pipeline'.steps
                   = PipelineFit(PipelineDeclared, diamonds_train_df).steps
             /\ result'.data
                   = PipelineTransform(
                         [steps |-> PipelineFit(PipelineDeclared,
                                                diamonds_train_df).steps],
                         diamonds_test_df).data]_vars

\* Both notebooks have run through the pipeline statements, and the fitted
\* CARAT range is the training split's, not that of the whole table.
C14_Witness ==
    /\ Passed("transform_test")
    /\ Len(history) = 7
    /\ history[1].op = "dump"
    /\ preprocessing_pipeline.steps[2].est.state["CARAT"]
          = MinMaxOf(diamonds_train_df, "CARAT")
    /\ MinMaxOf(diamonds_train_df, "CARAT") # MinMaxOf(diamonds_df, "CARAT")

\* C15: when registry.delete_model is about to be called, and from then on,
\* the registry holds no deployment of diamonds_model version 1: both
\* diamonds_model1_UDF and Diamonds_predict have been deleted.
C15_DeploymentsDeletedBeforeModel ==
    (Current = "delete_model" \/ Passed("delete_model")) =>
        /\ Deployment(model_deployment_name) \notin registry.deployments
        /\ Deployment("Diamonds_predict") \notin registry.deployments
        /\ DeploymentsOfModel = {}

\* C16: grid_search.fit has run only while the warehouse was LARGE, and a
\* run that has set the warehouse to LARGE has set it back to XSMALL by the
\* time it is over.
C16_WarehouseLargeOnlyForGridSearch ==
    /\ grid_search.fitted => grid_search.warehouse = "LARGE"
    /\ RunOver => warehouse_size # "LARGE"


\* v is the least value of column mape of df.
IsLeastMape(df, v) ==
    /\ \A i \in 1..Len(df) : v <= df[i].mape
    /\ \E i \in 1..Len(df) : v = df[i].mape

\* v is the greatest mean_test_score, negated.
IsNegatedBestScore(scores, v) ==
    /\ \A i \in 1..Len(scores) : scores[i] <= v * (-1)
    /\ \E i \in 1..Len(scores) : scores[i] = v * (-1)

\* df holds every point of the parameter grid exactly once.
EveryGridPointOnce(df) ==
    /\ Len(df) = GridSize
    /\ \A a \in 1..Len(GridEstimators) : \A b \in 1..Len(GridLearningRates) :
          Cardinality(MatchingRows(df, GridEstimators[a], GridLearningRates[b])) = 1

\* C18: gs_results_df holds each of the 25 grid points once; the lookup of
\* optimal_mape never fails and selects exactly one row, that of a grid
\* point; optimal_mape is the least mape, the negated greatest
\* mean_test_score; and it is the value set_metric records as
\* mean_abs_pct_err.
C18_OptimalMapeIsLeastMape ==
    [][/\ gs_results_df' # gs_results_df => EveryGridPointOnce(gs_results_df')
       /\ ~(Current = "optimal" /\ ~stopped /\ stopped')
       /\ optimal' # optimal =>
             /\ optimal'.n_estimators \in Range(GridEstimators)
             /\ optimal'.learning_rate \in Range(GridLearningRates)
             /\ Cardinality(MatchingRows(gs_results_df, optimal'.n_estimators,
                                         optimal'.learning_rate)) = 1
             /\ IsLeastMape(gs_results_df, optimal'.mape)
             /\ IsNegatedBestScore(grid_search.scores, optimal'.mape)
       /\ registry'.metrics # registry.metrics =>
             /\ registry'.metrics
                   = {<<model_name, model_version, "mean_abs_pct_err", optimal.mape>>}
             /\ IsLeastMape(gs_results_df, optimal.mape)]_vars

\* Two grid points share the best score, the first of them is
\* (n_estimators 300, learning_rate 0.2), and its mape has been recorded.
C18_Witness ==
    /\ Passed("set_metric")
    /\ optimal.n_estimators = 300
    /\ optimal.learning_rate = 200
    /\ Cardinality({i \in 1..GridSize : grid_search.scores[i] = -50}) = 2
    /\ registry.metrics = {<<model_name, model_version, "mean_abs_pct_err", 50>>}


-----------------------------------------------------------------------------
(* The process that runs the UDF batch_predict_diamond: load_model is      *)
(* wrapped by cachetools.cached(cache={}), keyed by its argument.          *)

\* Largest number of calls made in one process.
MaxInvocations == 3

\* Largest number of rows of a batch handed to the UDF.
MaxBatch == 2

\* The imported model file and the local pickle it was made from.
Filenames == {"model.joblib.gz", "model.joblib"}

\* sys._xoptions["snowflake_import_directory"]: not set, empty, or a path.
ImportDirectories ==
    {[defined |-> FALSE, dir |-> ""], [defined |-> TRUE, dir |-> ""],
     [defined |-> TRUE, dir |-> "/home/udf/imports"]}

None == [kind |-> "None", file |-> "", id |-> 0]

\* joblib.load builds a new object at every call.
LoadedObject(filename, n) == [kind |-> "model", file |-> filename, id |-> n]

Return(status, value, cache, files_opened) ==
    [status |-> status, value |-> value, cache |-> cache, opened |-> files_opened]

\* The body of load_model(filename).
LoadModelBody(filename) ==
    IF ~import_directory.defined
    THEN Return("KeyError", None, load_model_cache, opened)
    ELSE IF import_directory.dir = ""
    THEN Return(Ok, None, load_model_cache, opened)
    ELSE IF filename \notin import_directory.files
    THEN Return("FileNotFoundError", None, load_model_cache, opened)
    ELSE Return(Ok, LoadedObject(filename, opened[filename] + 1), load_model_cache,
                [opened EXCEPT ![filename] = @ + 1])

\* Variant: load_model without the cachetools.cached decorator.
LoadModelUncached(filename) == LoadModelBody(filename)

\* A value the body has returned is stored under its filename.
Cached(filename, r) ==
    IF r.status # Ok THEN r
    ELSE [r EXCEPT !.cache =
             [f \in DOMAIN load_model_cache \cup {filename} |->
                 IF f = filename THEN r.value ELSE load_model_cache[f]]]

\* load_model(filename) as decorated: a stored value is returned without
\* running the body.
load_model(filename) ==
    IF filename \in DOMAIN load_model_cache
    THEN Return(Ok, load_model_cache[filename], load_model_cache, opened)
    ELSE Cached(filename, LoadModelBody(filename))

InitUdf ==
    /\ SplitTable({DiamondRow(500, "IDEAL", "SI2")}, 2)
    /\ snowml_mms = MmsDeclared
    /\ snowml_oe = OeDeclared
    /\ snowml_ohe = OheDeclared
    /\ preprocessing_pipeline = PipelineDeclared
    /\ pipeline_file = NoFile
    /\ result = NoResult
    /\ NoNotebook
    /\ \E d \in ImportDirectories : \E fs \in SUBSET Filenames :
          import_directory = [defined |-> d.defined, dir |-> d.dir, files |-> fs]
    /\ load_model_cache = <<>>
    /\ opened = [f \in Filenames |-> 0]
    /\ returned = [filename |-> "", status |-> "none", value |-> None,
                   predictions |-> 0]
    /\ invocations = 0

\* A call of load_model(filename) has ended as r; predictions: the number of
\* values the UDF returns after it.
Called(filename, r, predictions) ==
    /\ invocations < MaxInvocations
    /\ invocations' = invocations + 1
    /\ load_model_cache' = r.cache
    /\ opened' = r.opened
    /\ returned' = [filename |-> filename, status |-> r.status, value |-> r.value,
                    predictions |-> predictions]
    /\ UNCHANGED <<pipeline_state, notebook, import_directory>>

\* load_model(filename)
LoadModel(filename) == Called(filename, load_model(filename), 0)

\* batch_predict_diamond(test_df) on a batch of n rows:
\* model = load_model('model.joblib.gz'); model.predict(test_df), which
\* raises when model is None.
BatchPredictDiamond(n) ==
    Called("model.joblib.gz", load_model("model.joblib.gz"),
           IF load_model("model.joblib.gz").status = Ok
              /\ load_model("model.joblib.gz").value # None
           THEN n ELSE 0)

NextUdf ==
    \/ \E f \in Filenames : LoadModel(f)
    \/ \E n \in 1..MaxBatch : BatchPredictDiamond(n)

SpecUdf == InitUdf /\ [][NextUdf]_vars

\* C17: once load_model has returned for a filename, its value (a model or
\* None) stays in the cache, every later call with that filename returns
\* that same object, and the file is not opened again: in one process a file
\* is opened at most once.
C17_LoadModelLoadsOnce ==
    [][/\ \A f \in DOMAIN load_model_cache :
             /\ f \in DOMAIN load_model_cache'
             /\ load_model_cache'[f] = load_model_cache[f]
             /\ opened'[f] = opened[f]
             /\ invocations' # invocations /\ returned'.filename = f =>
                   /\ returned'.status = Ok
                   /\ returned'.value = load_model_cache[f]
       /\ invocations' # invocations /\ returned'.status = Ok =>
             /\ returned'.filename \in DOMAIN load_model_cache'
             /\ load_model_cache'[returned'.filename] = returned'.value
       /\ \A f \in Filenames : opened'[f] <= 1]_vars

\* The UDF has run three times on the model loaded by its first run.
C17_Witness ==
    /\ invocations = 3
    /\ returned.filename = "model.joblib.gz"
    /\ returned.status = Ok
    /\ returned.value = LoadedObject("model.joblib.gz", 1)
    /\ returned.predictions > 0
    /\ opened["model.joblib.gz"] = 1
    /\ opened["model.joblib"] = 0

====
